---- MODULE Spec2Model ----
(***************************************************************************)
(* A model of musdb/__init__.py (class DB): the indexing of the dataset    *)
(* tree (load_mus_tracks), the composition of targets (create_targets) and *)
(* the writing of estimates (save_estimates).                              *)
(*                                                                         *)
(* Paths are sequences of path components.  A path below the instrument    *)
(* directory of a subset is <<subset, c1, c2, ...>>, standing for          *)
(* data_path/subset/instrument/c1/c2/...                                   *)
(***************************************************************************)
EXTENDS Integers, Sequences, FiniteSets, TLC

VARIABLES
    dirs,       \* input tree: the set of directories (paths), prefix-closed
    files,      \* input tree: the set of regular files (paths)
    setup,      \* self.setup: the loaded configuration document
    db,         \* the DB object (its attributes); NoDB before construction
    ret,        \* the outcome of the last call of DB(...) / load_mus_tracks
    catalogs,   \* per split: the outcome of load_mus_tracks(['train'], split)
    track,      \* the track handed to create_targets, and its result
    outDirs,    \* output tree: directories below estimates_dir
    outFiles,   \* output tree: files below estimates_dir
    codecLog,   \* the calls of stempeg.write_audio, in order
    mkdirLog,   \* per invocation of save_estimates: the directories it made
    inv         \* the invocations of save_estimates and their positions

vars == <<dirs, files, setup, db, ret, catalogs, track,
          outDirs, outFiles, codecLog, mkdirLog, inv>>

indexVars == <<dirs, files, setup, db, ret, catalogs>>
saveVars == <<outDirs, outFiles, codecLog, mkdirLog, inv>>

----------------------------------------------------------------------------
(* Bounds of the model.                                                    *)

\* at most this many leaf entries (directories or files) span the input tree
MaxLeaves == 2
\* at most this many targets in the target specification
MaxTargets == 2
\* the number of save_estimates invocations that may run concurrently
NumWriters == 2

\* directory names, in Python's sorted() order (code point order)
Alphabet == <<"a", "b">>
Names == {Alphabet[i] : i \in 1..Len(Alphabet)}
\* the depth of the deepest directory below the instrument directory
Depths == {1, 2, 3}

None == "None"
Undefined == "Undefined"

----------------------------------------------------------------------------
(* Sequences.                                                              *)

Range(s) == {s[i] : i \in 1..Len(s)}

RECURSIVE Concat(_)
Concat(ss) == IF ss = <<>> THEN <<>> ELSE Head(ss) \o Concat(Tail(ss))

SelectSeqBy(s, S) == SelectSeq(s, LAMBDA x : x \in S)

Prefixes(p) == {SubSeq(p, 1, k) : k \in 1..Len(p)}

\* the orderings of all of S
RECURSIVE Perms(_)
Perms(S) ==
    IF S = {} THEN {<<>>}
    ELSE UNION {{<<x>> \o p : p \in Perms(S \ {x})} : x \in S}

Orderings(S) == UNION {Perms(T) : T \in SUBSET S}

----------------------------------------------------------------------------
(* The file system, as os and os.path see it.                              *)

\* op.join(a, b) for a relative component b
Join(p, c) == Append(p, c)

\* os.path.exists(path): true of a directory as of a file
Exists(p) == p \in dirs \/ p \in files

\* sorted(folders)
Sorted(folders) ==
    SelectSeqBy(Alphabet, Range(folders))

\* the subdirectories of a directory, in the order the OS lists them
\* (os.scandir: "entries are yielded in arbitrary order")
ListDirs(top, order) ==
    SelectSeqBy(order, {n \in Names : Join(top, n) \in dirs})

\* the orders in which the OS may list the names: any, which shows only
\* where some directory holds more than one subdirectory.  A call draws one
\* order and lists every directory by it.
ScanOrders ==
    IF \E d \in dirs : Cardinality({n \in Names : Join(d, n) \in dirs}) > 1
    THEN {o \in Perms(Names) : TRUE}
    ELSE {Alphabet}

\* os.walk(top), top down: the (dirpath, dirnames) pairs it yields.
\* A top that is no directory yields nothing.
RECURSIVE Walk(_, _)
Walk(top, order) ==
    IF top \notin dirs THEN <<>>
    ELSE LET folders == ListDirs(top, order)
         IN  <<[path |-> top, folders |-> folders]>>
             \o Concat([i \in 1..Len(folders) |->
                            Walk(Join(top, folders[i]), order)])

----------------------------------------------------------------------------
(* The configuration document (self.setup) and the audio classes.          *)

\* the setup's sources: name -> file, in the document's order
SourceDecls ==
    <<[name |-> "vocals", file |-> "vocals.wav"],
      [name |-> "bass", file |-> "bass.wav"]>>
SourceNames == {SourceDecls[i].name : i \in 1..Len(SourceDecls)}
SourceFiles == {SourceDecls[i].file : i \in 1..Len(SourceDecls)}
Mixture == "mixture.wav"
StemIds == [mixture |-> 0, vocals |-> 1, bass |-> 2]
\* the setup's sample_rate, and the values the caller may pass
CfgSampleRate == "44100"
SampleRateArgs == {None, CfgSampleRate}

\* a number of the document: an integer or a float, val in tenths
Num(kind, val) == [kind |-> kind, val |-> val]
GainDecls == {Num("int", 10), Num("float", 5), Num("float", 10)}
\* float(x) of a number: a float of the same value
Float(x) == Num("float", x.val)
\* Python's == on numbers compares the values (1 == 1.0)
NumEq(x, y) == x.val = y.val

\* Source.__init__: gain starts at 1.0
NewSource(name, path, stem_id, sample_rate) ==
    [name |-> name, path |-> path, stem_id |-> stem_id,
     sample_rate |-> sample_rate, gain |-> Num("float", 10)]

\* MultiTrack.__init__: sources and targets are attached afterwards
NewMultiTrack(name, path, subset, is_wav, stem_id, sample_rate) ==
    [name |-> name, path |-> path, subset |-> subset, is_wav |-> is_wav,
     stem_id |-> stem_id, sample_rate |-> sample_rate,
     sources |-> <<>>, targets |-> <<>>]

\* Target.__init__: sources holds references to the track's Source objects,
\* a reference being the source's key in track.sources
NewTarget(sources, name) == [name |-> name, sources |-> sources]

\* a dict in insertion order is the sequence of its values, each naming its key
Keys(d) == {d[i].name : i \in 1..Len(d)}
Get(d, key) == d[CHOOSE i \in 1..Len(d) : d[i].name = key]

----------------------------------------------------------------------------
(* DB.create_targets                                                       *)

\* a variant of line 233 that sets a gain only where none was set before
SetGainOnce(sources, source, gain) ==
    [i \in 1..Len(sources) |->
        IF sources[i].name = source /\ sources[i].gain = Num("float", 10)
        THEN [sources[i] EXCEPT !.gain = Float(gain)]
        ELSE sources[i]]

\* a variant of line 233 that sets the gain on every source of the track
SetGainOnAll(sources, source, gain) ==
    [i \in 1..Len(sources) |-> [sources[i] EXCEPT !.gain = Float(gain)]]

\* track.sources[source].gain = float(gain)
SetGain(sources, source, gain) ==
    [i \in 1..Len(sources) |->
        IF sources[i].name = source
        THEN [sources[i] EXCEPT !.gain = Float(gain)]
        ELSE sources[i]]

\* the loop over one target's (source, gain) pairs
RECURSIVE TargetSources(_, _, _)
TargetSources(target_srcs, sources, target_sources) ==
    IF target_srcs = <<>>
    THEN [sources |-> sources, target_sources |-> target_sources]
    ELSE LET p == Head(target_srcs)
         IN  IF p.source \in Keys(sources)
             THEN TargetSources(Tail(target_srcs),
                                SetGain(sources, p.source, p.gain),
                                Append(target_sources, p.source))
             ELSE TargetSources(Tail(target_srcs), sources, target_sources)

\* the loop over the setup's targets
RECURSIVE ComposeTargets(_, _, _)
ComposeTargets(decls, sources, targets) ==
    IF decls = <<>>
    THEN [sources |-> sources, targets |-> targets]
    ELSE LET one == TargetSources(Head(decls).srcs, sources, <<>>)
         IN  ComposeTargets(
                 Tail(decls), one.sources,
                 IF one.target_sources # <<>>
                 THEN Append(targets,
                             NewTarget(one.target_sources, Head(decls).name))
                 ELSE targets)

\* create_targets(track): the targets it returns, and track.sources with the
\* gains it has set on the way
CreateTargets(sources) == ComposeTargets(setup.targets, sources, <<>>)

----------------------------------------------------------------------------
(* DB.load_mus_tracks                                                      *)

\* the subsets argument: None, a str, or a list of str
NoSubsets == [kind |-> "none", val |-> <<>>]
Str(x) == [kind |-> "str", val |-> <<x>>]
List(xs) == [kind |-> "list", val |-> xs]
SubsetArgs ==
    {NoSubsets, Str("train"), List(<<"train">>), List(<<"test">>),
     List(<<"test", "train">>)}
SplitArgs == {None, "train", "valid"}

\* a variant of the check of line 162: it asks whether 'train' is among the
\* subsets, not whether the subsets are the list ['train']
SplitMisusedByMembership(subsets, split) ==
    "train" \notin Range(subsets) /\ split # None

\* line 162: split is given and the subsets are not the list ['train']
SplitMisused(subsets, split) == subsets # <<"train">> /\ split # None

\* lines 156-160: None is ['train', 'test'], a str is the list holding it
Normalize(subsets) ==
    IF subsets.kind # "none"
    THEN IF subsets.kind = "str" THEN <<subsets.val[1]>> ELSE subsets.val
    ELSE <<"train", "test">>

\* a variant of lines 172-176 without the branch of line 175: the 'valid'
\* split keeps every track name
KeepWithoutValidBranch(track_name, subset, split) ==
    IF subset = "train"
    THEN ~(split = "train" /\ track_name \in setup.validation_tracks)
    ELSE TRUE

\* lines 172-176: whether a track name of a subset passes the split
Keep(track_name, subset, split) ==
    IF subset = "train"
    THEN IF split = "train" /\ track_name \in setup.validation_tracks
         THEN FALSE
         ELSE IF split = "valid" /\ track_name \notin setup.validation_tracks
              THEN FALSE
              ELSE TRUE
    ELSE TRUE

\* lines 180-181: the folder_num values the inner loops reach for one
\* track_name, in order: every directory os.walk(track_folder) yields
\* contributes its sorted subdirectory names
FolderNums(track_folder, order) ==
    LET walk == Walk(track_folder, order)
    IN  Concat([k \in 1..Len(walk) |-> Sorted(walk[k].folders)])

\* lines 168-181: the (subset, track_name, folder_num) triples for which the
\* loops of one subset reach the construction of a track, in order: every
\* directory os.walk(instrument folder) yields contributes its sorted
\* subdirectory names as track names
Visits(self, subset, split, order) ==
    LET walk == Walk(<<subset>>, order)
        OfName(track_name) ==
            LET nums == FolderNums(Join(<<subset>>, track_name), order)
            IN  [m \in 1..Len(nums) |->
                    [subset |-> subset, track_name |-> track_name,
                     folder_num |-> nums[m]]]
        OfFolders(folders) ==
            IF self.is_wav
            THEN LET names == SelectSeq(Sorted(folders),
                                  LAMBDA n : Keep(n, subset, split))
                 IN  Concat([j \in 1..Len(names) |-> OfName(names[j])])
            ELSE <<>>
    IN  Concat([i \in 1..Len(walk) |-> OfFolders(walk[i].folders)])

\* lines 197-215: the sources whose file exists, in the setup's order
ResolveSources(self, base) ==
    LET present == SelectSeq(setup.sources,
                       LAMBDA d : Exists(Join(base, d.file)))
    IN  [i \in 1..Len(present) |->
            NewSource(present[i].name, Join(base, present[i].file),
                      setup.stem_ids[present[i].name], self.sample_rate)]

\* lines 183-216: the track of one visit
MakeTrack(self, v) ==
    LET base == <<v.subset, v.track_name, v.folder_num>>
        trk == NewMultiTrack(v.track_name, Join(base, setup.mixture), v.subset,
                             self.is_wav, setup.stem_ids["mixture"],
                             self.sample_rate)
        made == CreateTargets(ResolveSources(self, base))
    IN  [trk EXCEPT !.sources = made.sources, !.targets = made.targets]

\* load_mus_tracks(subsets, split) on the object self, the OS listing
\* directories in the given order.  status is "ok" (tracks is returned) or
\* the exception raised; traversed tells whether os.walk was called at all.
\* Reading self.sample_rate (lines 193, 213) raises AttributeError when
\* __init__ has not set it: at the first track the loops reach.
LoadMusTracks(self, subsets0, split, order) ==
    LET subsets == Normalize(subsets0)
        visits == Concat([i \in 1..Len(subsets) |->
                             Visits(self, subsets[i], split, order)])
    IN  IF SplitMisused(subsets, split)
        THEN [status |-> "RuntimeError", tracks |-> <<>>, traversed |-> FALSE]
        ELSE IF visits # <<>> /\ self.sample_rate = Undefined
             THEN [status |-> "AttributeError", tracks |-> <<>>,
                   traversed |-> TRUE]
             ELSE [status |-> "ok",
                   tracks |-> [i \in 1..Len(visits) |->
                                  MakeTrack(self, visits[i])],
                   traversed |-> subsets # <<>>]

----------------------------------------------------------------------------
(* The DB object: DB.__init__ and calls of load_mus_tracks on it.          *)

NoDB ==
    [constructed |-> FALSE, sample_rate |-> Undefined, is_wav |-> FALSE,
     tracks |-> <<>>]

NoCall ==
    [op |-> "none", self |-> [sample_rate |-> Undefined, is_wav |-> FALSE],
     subsets |-> NoSubsets, split |-> None,
     status |-> "none", tracks |-> <<>>, traversed |-> FALSE]

\* a call's record: the operation, the attributes of the object it ran on,
\* its arguments, and what it returned or raised
Outcome(op, self, subsets, split, r) ==
    [op |-> op,
     self |-> [sample_rate |-> self.sample_rate, is_wav |-> self.is_wav],
     subsets |-> subsets, split |-> split, status |-> r.status,
     tracks |-> r.tracks, traversed |-> r.traversed]

NoCatalogs == [s \in SplitArgs |-> NoCall]

\* lines 98-105: the attributes __init__ sets before it indexes;
\* sample_rate is assigned only when the argument differs from the setup's
Attributes(sample_rate, is_wav) ==
    [sample_rate |-> IF sample_rate # setup.sample_rate
                     THEN sample_rate ELSE Undefined,
     is_wav |-> is_wav]

\* DB(sample_rate=.., is_wav=.., subsets=.., split=..): an exception of
\* load_mus_tracks (line 106) leaves the caller without an object
DBInit(sample_rate, is_wav, subsets, split) ==
    /\ ~db.constructed /\ ret.op = "none"
    /\ \E order \in ScanOrders :
         LET self == Attributes(sample_rate, is_wav)
             r == LoadMusTracks(self, subsets, split, order)
         IN  /\ db' = IF r.status = "ok"
                      THEN [constructed |-> TRUE,
                            sample_rate |-> self.sample_rate,
                            is_wav |-> self.is_wav, tracks |-> r.tracks]
                      ELSE NoDB
             /\ ret' = Outcome("init", self, subsets, split, r)
    /\ UNCHANGED <<dirs, files, setup, catalogs, track>>
    /\ UNCHANGED saveVars

\* db.load_mus_tracks(subsets, split): the catalog is returned, self.tracks
\* is left as it is
LoadCall(subsets, split) ==
    /\ db.constructed
    /\ \E order \in ScanOrders :
         ret' = Outcome("load", db, subsets, split,
                        LoadMusTracks(db, subsets, split, order))
    /\ UNCHANGED <<dirs, files, setup, db, track>>
    /\ UNCHANGED saveVars

Load(subsets, split) ==
    /\ LoadCall(subsets, split)
    /\ UNCHANGED catalogs

\* the same call, its outcome kept per split for the calls on ['train']
LoadSplit(subsets, split) ==
    /\ Normalize(subsets) = <<"train">>
    /\ catalogs[split].op = "none"
    /\ LoadCall(subsets, split)
    /\ catalogs' = [catalogs EXCEPT ![split] = ret']

----------------------------------------------------------------------------
(* Initial states.                                                         *)

\* the subsets of S of at most k elements
RECURSIVE UpTo(_, _)
UpTo(S, k) ==
    IF k = 0 THEN {{}}
    ELSE LET less == UpTo(S, k - 1)
         IN  less \cup {T \cup {x} : T \in less, x \in S}

\* the sequences over S of the lengths in L
SeqsOf(S, L) == UNION {[1..n -> S] : n \in L}

\* the directories of a subset's instrument folder, itself included
DirsOf(subset, depths) ==
    {<<subset>> \o p : p \in SeqsOf(Names, depths \cup {0})}
\* the source files a track of the subset may hold
FilesOf(subset) ==
    {<<subset>> \o p \o <<f>> : p \in SeqsOf(Names, {2}), f \in SourceFiles}

\* the tree spanned by a set of entries: every directory above an entry
TreeDirs(leaves) ==
    UNION {Prefixes(p) : p \in {q \in leaves : q[Len(q)] \notin SourceFiles}}
    \cup UNION {Prefixes(SubSeq(p, 1, Len(p) - 1)) :
                    p \in {q \in leaves : q[Len(q)] \in SourceFiles}}
TreeFiles(leaves) == {q \in leaves : q[Len(q)] \in SourceFiles}

InitTree(entries) ==
    \E leaves \in UpTo(entries, MaxLeaves) :
        /\ dirs = TreeDirs(leaves)
        /\ files = TreeFiles(leaves)

\* the setup's targets of the index specifications: a source shared by two
\* targets
IndexTargets ==
    <<[name |-> "vocals",
       srcs |-> <<[source |-> "vocals", gain |-> Num("int", 10)]>>],
      [name |-> "linear_mixture",
       srcs |-> <<[source |-> "vocals", gain |-> Num("float", 5)],
                  [source |-> "bass", gain |-> Num("int", 10)]>>]>>

Setup(targets, validation_tracks) ==
    [sample_rate |-> CfgSampleRate, sources |-> SourceDecls,
     targets |-> targets, stem_ids |-> StemIds,
     validation_tracks |-> validation_tracks, mixture |-> Mixture]

NoTrack == [composed |-> FALSE, sources |-> <<>>, targets |-> <<>>]

IdleIndex == db = NoDB /\ ret = NoCall /\ catalogs = NoCatalogs
IdleTargets == track = NoTrack
IdleSave ==
    /\ outDirs = {} /\ outFiles = {} /\ codecLog = <<>>
    /\ mkdirLog = <<>> /\ inv = <<>>

\* an input tree spanned by entries, a validation set among Vs, no DB yet
InitIndexOver(entries, Vs) ==
    /\ InitTree(entries)
    /\ \E V \in Vs : setup = Setup(IndexTargets, V)
    /\ IdleIndex /\ IdleTargets /\ IdleSave

\* both subsets' folders, and source files in the train subset's tracks
InitIndex ==
    InitIndexOver(DirsOf("train", Depths) \cup DirsOf("test", Depths)
                  \cup FilesOf("train"), {{"a"}})

NextIndex ==
    \/ \E sample_rate \in SampleRateArgs, is_wav \in BOOLEAN,
          subsets \in SubsetArgs, split \in SplitArgs :
          DBInit(sample_rate, is_wav, subsets, split)
    \/ \E subsets \in SubsetArgs, split \in SplitArgs : Load(subsets, split)

Spec == InitIndex /\ [][NextIndex]_vars

\* the index restricted to directories: what the argument check of
\* load_mus_tracks is checked over
InitArgs ==
    InitIndexOver(DirsOf("train", {1, 2}) \cup DirsOf("test", {1, 2}),
                  {{"a"}})

SpecArgs == InitArgs /\ [][NextIndex]_vars

\* the train subset alone, every validation set: each split is loaded once
InitSplit ==
    InitIndexOver(DirsOf("train", Depths), SUBSET Names)

NextSplit ==
    \/ \E sample_rate \in SampleRateArgs, is_wav \in BOOLEAN,
          split \in SplitArgs :
          DBInit(sample_rate, is_wav, Str("train"), split)
    \/ \E split \in SplitArgs : LoadSplit(Str("train"), split)

SpecSplit == InitSplit /\ [][NextSplit]_vars

----------------------------------------------------------------------------
(* What the indexing claims speak of, read from the tree itself.           *)

\* the names of the immediate subdirectories of a directory
ImmediateDirs(p) == {n \in Names : Append(p, n) \in dirs}

\* a set of names as the sequence in sorted order
InOrder(S) == SelectSeq(Alphabet, LAMBDA n : n \in S)

\* the subsets a call asks for: a single string is the one-element list
ArgList(subsets) ==
    CASE subsets.kind = "none" -> <<"train", "test">>
      [] subsets.kind = "str" -> <<subsets.val[1]>>
      [] OTHER -> subsets.val

\* the track names of a subset that pass the split
Retained(subset, split) ==
    {n \in ImmediateDirs(<<subset>>) :
        \/ subset # "train"
        \/ split \notin {"train", "valid"}
        \/ split = "train" /\ n \notin setup.validation_tracks
        \/ split = "valid" /\ n \in setup.validation_tracks}

\* subsets in caller order, track names sorted, variants sorted
ExpectedTriples(subsets, split) ==
    LET OfName(subset, n) ==
            LET variants == InOrder(ImmediateDirs(<<subset, n>>))
            IN  [k \in 1..Len(variants) |->
                    [subset |-> subset, track_name |-> n,
                     folder_num |-> variants[k]]]
        OfSubset(subset) ==
            LET names == InOrder(Retained(subset, split))
            IN  Concat([j \in 1..Len(names) |-> OfName(subset, names[j])])
    IN  Concat([i \in 1..Len(subsets) |-> OfSubset(subsets[i])])

\* the (subset, track name, variant) a track was built for: its mixture is
\* subset/name/variant/mixture
TripleOf(t) ==
    [subset |-> t.subset, track_name |-> t.name, folder_num |-> t.path[3]]

TriplesOf(tracks) == [i \in 1..Len(tracks) |-> TripleOf(tracks[i])]

NamesOf(tracks) == {tracks[i].name : i \in 1..Len(tracks)}

Called == ret.op # "none"

\* C1: in per-file mode the returned catalog is exactly one Track per
\* retained (subset, track name, variant), subsets in caller order, track
\* names sorted, variants sorted.
C1_CatalogIsSortedTriples ==
    (Called /\ ret.self.is_wav /\ ret.status = "ok")
        => TriplesOf(ret.tracks) = ExpectedTriples(ArgList(ret.subsets), ret.split)

\* Where no directory lies below a variant folder and no variant is named
\* like a track folder of its subset, the catalog is the expected one.
CatalogOrderOnPlainTrees ==
    (/\ Called /\ ret.self.is_wav /\ ret.status = "ok"
     /\ \A d \in dirs : Len(d) <= 3
     /\ \A d \in dirs : Len(d) = 3 => <<d[1], d[3]>> \notin dirs)
        => TriplesOf(ret.tracks) = ExpectedTriples(ArgList(ret.subsets), ret.split)

\* C2: in container mode the returned catalog holds one Track for every
\* immediate subdirectory that passes the split, named after it.
C2_ContainerTracks ==
    (Called /\ ~ret.self.is_wav /\ ret.status = "ok")
        => \A i \in 1..Len(ArgList(ret.subsets)) :
             \A n \in Retained(ArgList(ret.subsets)[i], ret.split) :
                \E k \in 1..Len(ret.tracks) :
                    /\ ret.tracks[k].name = n
                    /\ ret.tracks[k].subset = ArgList(ret.subsets)[i]

\* the sources and targets the claim gives the track of a triple
SourcesAsClaimed(t) ==
    SelectSeq([i \in 1..Len(setup.sources) |-> setup.sources[i].name],
              LAMBDA src :
                 \E i \in 1..Len(setup.sources) :
                    /\ setup.sources[i].name = src
                    /\ <<t.subset, t.track_name, t.folder_num,
                         setup.sources[i].file>> \in files)

ConstituentsAsClaimed(decl, present) ==
    SelectSeq([i \in 1..Len(decl.srcs) |-> decl.srcs[i].source],
              LAMBDA src : src \in present)

TargetsAsClaimed(present) ==
    LET all == [i \in 1..Len(setup.targets) |->
                   [name |-> setup.targets[i].name,
                    sources |-> ConstituentsAsClaimed(setup.targets[i], present)]]
    IN  SelectSeq(all, LAMBDA tg : tg.sources # <<>>)

TrackAsClaimed(trk, t) ==
    /\ TripleOf(trk) = t
    /\ [i \in 1..Len(trk.sources) |-> trk.sources[i].name] = SourcesAsClaimed(t)
    /\ trk.targets = TargetsAsClaimed(Range(SourcesAsClaimed(t)))

\* C4: every retained (track name, variant) yields a Track in the catalog,
\* its sources the declared sources whose file exists, its targets the
\* declared targets with a present constituent, each listing its present
\* constituents in declaration order.
C4_PartialTracks ==
    (Called /\ ret.self.is_wav /\ ret.status # "RuntimeError")
        => \A t \in Range(ExpectedTriples(ArgList(ret.subsets), ret.split)) :
              \E k \in 1..Len(ret.tracks) : TrackAsClaimed(ret.tracks[k], t)

\* The same of the calls that return.
PartialTracksWhenReturned ==
    (Called /\ ret.self.is_wav /\ ret.status = "ok")
        => \A t \in Range(ExpectedTriples(ArgList(ret.subsets), ret.split)) :
              \E k \in 1..Len(ret.tracks) : TrackAsClaimed(ret.tracks[k], t)

\* C10: indexing a tree with a retained (track name, variant) never fails on
\* an undefined sample rate: the attribute is defined, and every Track and
\* Source carries its value.
C10_SampleRateDefined ==
    (/\ Called /\ ret.self.is_wav /\ ret.status # "RuntimeError"
     /\ ExpectedTriples(ArgList(ret.subsets), ret.split) # <<>>)
        => /\ ret.self.sample_rate # Undefined
           /\ ret.status = "ok"
           /\ \A k \in 1..Len(ret.tracks) :
                 /\ ret.tracks[k].sample_rate = ret.self.sample_rate
                 /\ \A j \in 1..Len(ret.tracks[k].sources) :
                       ret.tracks[k].sources[j].sample_rate
                           = ret.self.sample_rate

\* C8: load_mus_tracks raises the configuration error exactly when split is
\* given and the subsets asked for are not the list ['train']; it raises
\* before any traversal, so that no Track is built and no catalog returned.
C8_SplitNeedsTrain ==
    Called =>
        /\ ret.status = "RuntimeError"
             <=> (ret.split # None /\ ArgList(ret.subsets) # <<"train">>)
        /\ ret.status = "RuntimeError"
             => /\ ~ret.traversed
                /\ ret.tracks = <<>>
                /\ ret.op = "init" => ~db.constructed

\* a call with split and a list holding 'train' beside another subset was
\* refused although the train folder holds a track with a variant
C8_Witness ==
    /\ ret.op = "load" /\ ret.status = "RuntimeError"
    /\ ret.split = "valid" /\ ret.subsets = List(<<"test", "train">>)
    /\ ret.self.is_wav
    /\ \E n \in Names, v \in Names : <<"train", n, v>> \in dirs

\* the three calls of the claim have been made on the object
SplitsLoaded == \A s \in SplitArgs : catalogs[s].op = "load"

\* the folders of the tracks that carry a name in a catalog
FoldersOf(tracks, n) ==
    {tracks[i].path : i \in {k \in 1..Len(tracks) : tracks[k].name = n}}

\* C3: the track names of the 'train' and the 'valid' catalog are disjoint,
\* their union is the names of the catalog without split; a name of that
\* catalog is in 'valid' iff it is a validation track and in 'train' iff it
\* is not; and a split keeps or drops a track name with all its variants.
C3_SplitsPartitionNames ==
    SplitsLoaded =>
        LET all == catalogs[None].tracks
            train == catalogs["train"].tracks
            valid == catalogs["valid"].tracks
        IN  /\ NamesOf(train) \cap NamesOf(valid) = {}
            /\ NamesOf(train) \cup NamesOf(valid) = NamesOf(all)
            /\ \A n \in NamesOf(all) :
                  /\ n \in NamesOf(valid) <=> n \in setup.validation_tracks
                  /\ n \in NamesOf(train) <=> n \notin setup.validation_tracks
            /\ \A n \in NamesOf(train) : FoldersOf(train, n) = FoldersOf(all, n)
            /\ \A n \in NamesOf(valid) : FoldersOf(valid, n) = FoldersOf(all, n)

\* all three catalogs were returned, and both splits hold a track
C3_Witness ==
    /\ SplitsLoaded
    /\ \A s \in SplitArgs : catalogs[s].status = "ok"
    /\ NamesOf(catalogs["train"].tracks) # {}
    /\ NamesOf(catalogs["valid"].tracks) # {}

----------------------------------------------------------------------------
(* create_targets on its own: a track with some of the declared sources,   *)
(* under every target specification within the bounds.                     *)

TargetNames == <<"t1", "t2", "t3", "t4">>

\* the ordered mappings source -> gain over the declared sources
TargetSrcs ==
    UNION {{[i \in 1..Len(o) |-> [source |-> o[i], gain |-> g[i]]] :
               g \in [1..Len(o) -> GainDecls]} :
           o \in Orderings(SourceNames)}

\* the target specifications of at most MaxTargets targets
TargetSpecs ==
    UNION {{[i \in 1..n |-> [name |-> TargetNames[i], srcs |-> f[i]]] :
               f \in [1..n -> TargetSrcs]} :
           n \in 0..MaxTargets}

\* the sources of a track of which exactly the given ones exist on disk
SourcesOnDisk(present) ==
    LET decls == SelectSeq(SourceDecls, LAMBDA d : d.name \in present)
    IN  [i \in 1..Len(decls) |->
            NewSource(decls[i].name, <<"train", "a", "a", decls[i].file>>,
                      StemIds[decls[i].name], None)]

InitTargets ==
    /\ \E targets \in TargetSpecs : setup = Setup(targets, {})
    /\ \E present \in SUBSET SourceNames :
          track = [composed |-> FALSE, sources |-> SourcesOnDisk(present),
                   targets |-> <<>>]
    /\ dirs = {} /\ files = {}
    /\ IdleIndex /\ IdleSave

\* track.targets = self.create_targets(track)   (line 216)
CreateTargetsCall ==
    /\ ~track.composed
    /\ LET made == CreateTargets(track.sources)
       IN  track' = [composed |-> TRUE, sources |-> made.sources,
                     targets |-> made.targets]
    /\ UNCHANGED indexVars
    /\ UNCHANGED saveVars

NextTargets == CreateTargetsCall

SpecTargets == InitTargets /\ [][NextTargets]_vars

\* the declaration of a target, and the positions of the declarations that
\* name a source
DeclOf(name) ==
    setup.targets[CHOOSE i \in 1..Len(setup.targets) :
                      setup.targets[i].name = name]
DeclIndex(name) ==
    CHOOSE i \in 1..Len(setup.targets) : setup.targets[i].name = name
Naming(src) ==
    {i \in 1..Len(setup.targets) :
        \E k \in 1..Len(setup.targets[i].srcs) :
            setup.targets[i].srcs[k].source = src}
DeclaredGain(i, src) ==
    LET srcs == setup.targets[i].srcs
    IN  srcs[CHOOSE k \in 1..Len(srcs) : srcs[k].source = src].gain
Max(S) == CHOOSE x \in S : \A y \in S : y <= x

\* a target's source list follows the order of its declaration
InDeclaredOrder(tg) ==
    tg.sources = ConstituentsAsClaimed(DeclOf(tg.name), Keys(track.sources))

\* C5 as stated: every Source in a Target's list carries the gain that this
\* Target's declaration gives it, and the list is in declaration order.
C5_GainAsDeclared ==
    track.composed =>
        \A t \in 1..Len(track.targets) :
            /\ InDeclaredOrder(track.targets[t])
            /\ \A k \in 1..Len(track.targets[t].sources) :
                  LET src == track.targets[t].sources[k]
                  IN  NumEq(Get(track.sources, src).gain,
                            DeclaredGain(DeclIndex(track.targets[t].name), src))

\* C5 amended: a Source in a Target's list carries the gain this Target
\* declares for it provided no later target of the specification declares
\* another gain for the same source; the list is in declaration order.
C5_GainAsDeclaredUnlessRedeclared ==
    track.composed =>
        \A t \in 1..Len(track.targets) :
            /\ InDeclaredOrder(track.targets[t])
            /\ \A k \in 1..Len(track.targets[t].sources) :
                  LET src == track.targets[t].sources[k]
                      own == DeclIndex(track.targets[t].name)
                  IN  (\A j \in Naming(src) :
                          j > own => NumEq(DeclaredGain(j, src),
                                           DeclaredGain(own, src)))
                      => NumEq(Get(track.sources, src).gain,
                               DeclaredGain(own, src))

\* a target of two sources with different gains was composed, both present
C5_Witness ==
    /\ track.composed
    /\ \E t \in 1..Len(track.targets) :
          /\ Len(track.targets[t].sources) = 2
          /\ Get(track.sources, track.targets[t].sources[1]).gain
                 = Num("float", 5)
          /\ Get(track.sources, track.targets[t].sources[2]).gain
                 = Num("float", 10)
          /\ DeclaredGain(DeclIndex(track.targets[t].name),
                          track.targets[t].sources[2]).kind = "int"

\* C9: after create_targets every Source of the track holds one gain: the
\* float of the gain declared by the last target, in specification order,
\* that names the source, or the initial 1.0 where no target names it; every
\* target that lists the Source sees that gain.
C9_LastTargetSetsGain ==
    track.composed =>
        /\ \A i \in 1..Len(track.sources) :
              LET src == track.sources[i].name
              IN  IF Naming(src) = {}
                  THEN track.sources[i].gain = Num("float", 10)
                  ELSE track.sources[i].gain
                           = Float(DeclaredGain(Max(Naming(src)), src))
        /\ \A t \in 1..Len(track.targets) :
              \A k \in 1..Len(track.targets[t].sources) :
                 LET src == track.targets[t].sources[k]
                 IN  NumEq(Get(track.sources, src).gain,
                           DeclaredGain(Max(Naming(src)), src))

\* two targets gave one source different gains, the later one's is kept and
\* seen through the earlier target; another source is named by no target
C9_Witness ==
    /\ track.composed
    /\ Len(track.targets) = 2
    /\ \E src \in Keys(track.sources) :
          /\ Naming(src) = {1, 2}
          /\ ~NumEq(DeclaredGain(1, src), DeclaredGain(2, src))
          /\ src \in Range(track.targets[1].sources)
          /\ Get(track.sources, src).gain = Float(DeclaredGain(2, src))
    /\ \E src \in Keys(track.sources) :
          Naming(src) = {} /\ Get(track.sources, src).gain = Num("float", 10)

----------------------------------------------------------------------------
(* DB.save_estimates.  Output paths are relative to estimates_dir, which   *)
(* is the empty path.  Invocations may run concurrently: between the       *)
(* os.path.exists of line 266 and the os.makedirs of line 267 another      *)
(* invocation may act.                                                     *)

Writers == 1..NumWriters

\* target + '.wav'
WavName == [vocals |-> "vocals.wav", bass |-> "bass.wav"]

\* the tracks estimates are saved for, and the estimates: target -> buffer
SavedTracks ==
    {[subset |-> "test", name |-> "a", rate |-> "44100"],
     [subset |-> "test", name |-> "b", rate |-> "44100"]}
Estimates ==
    {<<[target |-> "vocals", data |-> "buffer1"]>>,
     <<[target |-> "vocals", data |-> "buffer1"],
       [target |-> "bass", data |-> "buffer2"]>>}

\* the output trees an invocation may find
OutputTrees == {{}, {<<>>}, {<<>>, <<"test">>}, {<<>>, <<"test">>, <<"test", "a">>}}

Idle ==
    [pc |-> "idle", track |-> [subset |-> "test", name |-> "a", rate |-> "44100"],
     estimates |-> <<>>, write_stems |-> FALSE]

InitSave ==
    /\ outDirs \in OutputTrees
    /\ outFiles = {}
    /\ inv = [w \in Writers |-> Idle]
    /\ codecLog = [w \in Writers |-> <<>>]
    /\ mkdirLog = [w \in Writers |-> {}]
    /\ dirs = {} /\ files = {} /\ setup = Setup(IndexTargets, {})
    /\ IdleIndex /\ IdleTargets

\* lines 263-265
TrackEstimateDir(iv) == <<iv.track.subset, iv.track.name>>

\* os.path.exists on the output tree
OutExists(p) == p \in outDirs \/ p \in outFiles

\* what lines 270-280 hand to the codec: nothing when write_stems is set
ToWriteWhateverStems(iv) == iv.estimates

ToWrite(iv) == IF iv.write_stems THEN <<>> ELSE iv.estimates

\* save_estimates(user_estimates, track, estimates_dir, write_stems) begins
Call(w, trk, estimates, write_stems) ==
    /\ inv[w].pc = "idle"
    /\ inv' = [inv EXCEPT ![w] = [pc |-> "exists", track |-> trk,
                                  estimates |-> estimates,
                                  write_stems |-> write_stems]]
    /\ UNCHANGED <<outDirs, outFiles, codecLog, mkdirLog>>
    /\ UNCHANGED indexVars /\ UNCHANGED track

\* line 266: if not os.path.exists(track_estimate_dir)
CheckExists(w) ==
    /\ inv[w].pc = "exists"
    /\ inv' = [inv EXCEPT ![w].pc =
                  IF ~OutExists(TrackEstimateDir(inv[w]))
                  THEN "makedirs" ELSE "write"]
    /\ UNCHANGED <<outDirs, outFiles, codecLog, mkdirLog>>
    /\ UNCHANGED indexVars /\ UNCHANGED track

\* line 267: os.makedirs(track_estimate_dir) makes the missing parents and
\* then the directory itself, and raises FileExistsError if that exists
Makedirs(w) ==
    /\ inv[w].pc = "makedirs"
    /\ LET leaf == TrackEstimateDir(inv[w])
           made == ({<<>>} \cup Prefixes(leaf)) \ outDirs
       IN  IF OutExists(leaf)
           THEN /\ inv' = [inv EXCEPT ![w].pc = "FileExistsError"]
                /\ UNCHANGED <<outDirs, mkdirLog>>
           ELSE /\ inv' = [inv EXCEPT ![w].pc = "write"]
                /\ outDirs' = outDirs \cup made
                /\ mkdirLog' = [mkdirLog EXCEPT ![w] = made]
    /\ UNCHANGED <<outFiles, codecLog>>
    /\ UNCHANGED indexVars /\ UNCHANGED track

\* lines 270-280: each estimate goes to stempeg.write_audio, which writes
\* track_estimate_dir/target.wav
Write(w) ==
    /\ inv[w].pc = "write"
    /\ LET given == ToWrite(inv[w])
           handed == [i \in 1..Len(given) |->
                        [path |-> Join(TrackEstimateDir(inv[w]),
                                       WavName[given[i].target]),
                         data |-> given[i].data,
                         sample_rate |-> inv[w].track.rate]]
       IN  /\ codecLog' = [codecLog EXCEPT ![w] = handed]
           /\ outFiles' = outFiles \cup {handed[i].path : i \in 1..Len(handed)}
    /\ inv' = [inv EXCEPT ![w].pc = "done"]
    /\ UNCHANGED <<outDirs, mkdirLog>>
    /\ UNCHANGED indexVars /\ UNCHANGED track

NextSave ==
    \E w \in Writers :
        \/ \E trk \in SavedTracks, estimates \in Estimates,
              write_stems \in BOOLEAN : Call(w, trk, estimates, write_stems)
        \/ CheckExists(w)
        \/ Makedirs(w)
        \/ Write(w)

SpecSave == InitSave /\ [][NextSave]_vars

Past(w) == inv[w].pc \in {"write", "done"}

\* C6: no invocation fails on the directory existing, and every invocation
\* that is past the creation finds the directory in place.
C6_NoDirectoryExistsError ==
    \A w \in Writers :
        /\ inv[w].pc # "FileExistsError"
        /\ Past(w) => TrackEstimateDir(inv[w]) \in outDirs

\* An invocation fails on the directory existing only where another
\* invocation has made that directory.
ExistsErrorOnlyInARace ==
    \A w \in Writers :
        inv[w].pc = "FileExistsError"
            => \E v \in Writers \ {w} : TrackEstimateDir(inv[w]) \in mkdirLog[v]

\* C7 as stated: an invocation with write_stems makes no directory, writes
\* no file and hands no buffer to the codec.
C7_StemsLeaveNoTrace ==
    \A w \in Writers :
        inv[w].write_stems =>
            /\ mkdirLog[w] = {}
            /\ codecLog[w] = <<>>
            /\ \A f \in outFiles :
                  \E v \in Writers :
                     /\ ~inv[v].write_stems
                     /\ \E i \in 1..Len(codecLog[v]) : codecLog[v][i].path = f

\* C7 amended: an invocation with write_stems writes no file and hands no
\* buffer to the codec; what it makes is at most the track's estimate
\* directory with its missing parents, which is in place once it is past
\* the creation.
C7_StemsMakeOnlyTheDirectory ==
    \A w \in Writers :
        inv[w].write_stems =>
            /\ codecLog[w] = <<>>
            /\ \A f \in outFiles :
                  \E v \in Writers :
                     /\ ~inv[v].write_stems
                     /\ \E i \in 1..Len(codecLog[v]) : codecLog[v][i].path = f
            /\ mkdirLog[w] \subseteq
                   {<<>>} \cup Prefixes(TrackEstimateDir(inv[w]))
            /\ Past(w) => TrackEstimateDir(inv[w]) \in outDirs

\* an invocation with write_stems and two estimates has returned: it made the
\* directory, and nothing was written
C7_Witness ==
    \E w \in Writers :
        /\ inv[w].pc = "done" /\ inv[w].write_stems
        /\ Len(inv[w].estimates) = 2
        /\ TrackEstimateDir(inv[w]) \in mkdirLog[w]
        /\ codecLog[w] = <<>> /\ outFiles = {}

====
